---- MODULE Spec2Model ----
(***************************************************************************)
(* The customization backend of Rmart7866/shopify-customizer as a state    *)
(* machine.  The repository holds two servers with the same routes:        *)
(* src/unnamed/part_000 (the full server: settings, customization toggles, *)
(* order webhook, production file generation, order queue) and             *)
(* src/server.js (the simple server: settings, toggles and a webhook       *)
(* stub).  The variable `server` says which of the two is running.         *)
(*                                                                         *)
(* One action is one database operation of a request handler together with *)
(* the synchronous JavaScript that runs after it up to the next `await` or *)
(* to the response: Node runs that code without interleaving, while the    *)
(* database operations of different requests interleave freely.            *)
(***************************************************************************)
EXTENDS Integers, Sequences, FiniteSets, TLC

(* ------------------------------ bounds -------------------------------- *)
\* Number of requests the server handles (each in its own handler).
NumHandlers == 2
\* The clock (Date.now / new Date()) takes the values 0..MaxClock.
MaxClock == 1
\* The deliveries in flight at once when compilation is checked over the
\* wider set of orders.
CompileHandlers == 1

Handlers == 1..NumHandlers
Shops == {"s1", "s2"}

(* ------------------------- JavaScript values -------------------------- *)
\* An optional value: undefined / null, or a value.
None == [some |-> FALSE]
Some(x) == [some |-> TRUE, v |-> x]

\* A property value of a line item as JSON carries it: a string or a
\* number (v is its text in both cases).
Str(s) == [type |-> "string", v |-> s]
Num(s) == [type |-> "number", v |-> s]
Undefined == [type |-> "undefined", v |-> ""]

\* JavaScript truthiness of such a value: '' and 0 and undefined are falsy.
Truthy(x) ==
  CASE x.type = "string" -> x.v # ""
    [] x.type = "number" -> x.v # "0"
    [] OTHER -> FALSE

\* a || b for two such values.
Or(a, b) == IF Truthy(a) THEN a ELSE b

\* obj[key] of a JavaScript object held as a function on its own keys.
Get(obj, key) == IF key \in DOMAIN obj THEN obj[key] ELSE Undefined

\* An object reduced to the paths a mongoose schema declares (strict mode
\* drops every other path on create and on update).
Restrict(obj, paths) == [k \in (DOMAIN obj) \cap paths |-> obj[k]]

(* ------------------------------ strings ------------------------------- *)
LowerCase == "abcdefghijklmnopqrstuvwxyz"
UpperCase == "ABCDEFGHIJKLMNOPQRSTUVWXYZ"

\* c.toUpperCase() of one character.
UpperChar(c) ==
  IF \E i \in 1..Len(LowerCase) : SubSeq(LowerCase, i, i) = c
    THEN LET i == CHOOSE j \in 1..Len(LowerCase) : SubSeq(LowerCase, j, j) = c
         IN SubSeq(UpperCase, i, i)
    ELSE c

RECURSIVE toUpperCase(_)
toUpperCase(s) ==
  IF s = "" THEN "" ELSE UpperChar(SubSeq(s, 1, 1)) \o toUpperCase(Tail(s))

IsSpace(c) == c = " "

RECURSIVE trimStart(_)
trimStart(s) ==
  IF s # "" /\ IsSpace(SubSeq(s, 1, 1)) THEN trimStart(Tail(s)) ELSE s

RECURSIVE trimEnd(_)
trimEnd(s) ==
  IF s # "" /\ IsSpace(SubSeq(s, Len(s), Len(s)))
    THEN trimEnd(SubSeq(s, 1, Len(s) - 1))
    ELSE s

\* s.trim()
trim(s) == trimEnd(trimStart(s))

RECURSIVE splitFrom(_, _, _)
splitFrom(s, i, start) ==
  IF i > Len(s) THEN <<SubSeq(s, start, Len(s))>>
  ELSE IF SubSeq(s, i, i) = ","
    THEN <<SubSeq(s, start, i - 1)>> \o splitFrom(s, i + 1, i + 1)
    ELSE splitFrom(s, i + 1, start)

\* s.split(',')
split(s) == splitFrom(s, 1, 1)

\* `${a} ${b}`
Template(a, b) == a \o " " \o b

(* ------------------------- the shop catalog --------------------------- *)
\* The paths the settings schema declares: globalSettingsSchema of the
\* full server, settingsSchema of the simple one (no coordinates, no
\* fontFile).
TextOptionPaths == {"id", "name", "maxLength", "basePrice"}
CoordinatePaths == {"x", "y", "maxWidth", "maxHeight", "rotation"}
PlacementPaths(srv) ==
  IF srv = "part_000" THEN {"id", "name", "code", "price", "coordinates"}
                      ELSE {"id", "name", "code", "price"}
FontPaths(srv) ==
  IF srv = "part_000" THEN {"id", "name", "code", "price", "fontFile", "displayName"}
                      ELSE {"id", "name", "code", "price", "displayName"}
SettingsPaths == {"shopDomain", "textOptions", "placements", "fonts", "updatedAt"}

castTextOption(o) == Restrict(o, TextOptionPaths)

castPlacement(srv, p) ==
  LET q == Restrict(p, PlacementPaths(srv))
  IN [k \in DOMAIN q |->
        IF k = "coordinates" THEN Restrict(q[k], CoordinatePaths) ELSE q[k]]

castFont(srv, f) == Restrict(f, FontPaths(srv))

\* What the schema keeps of an object given to create or to an update.
castSettings(srv, obj) ==
  LET o == Restrict(obj, SettingsPaths)
  IN [k \in DOMAIN o |->
        CASE k = "textOptions" -> [i \in DOMAIN o[k] |-> castTextOption(o[k][i])]
          [] k = "placements"  -> [i \in DOMAIN o[k] |-> castPlacement(srv, o[k][i])]
          [] k = "fonts"       -> [i \in DOMAIN o[k] |-> castFont(srv, o[k][i])]
          [] OTHER             -> o[k]]

\* The literal the full server creates on first access.
DefaultSettingsFull ==
  [textOptions |-> <<
     [id |-> 1, name |-> "Player Name", maxLength |-> 15, basePrice |-> 0],
     [id |-> 2, name |-> "Custom Text", maxLength |-> 25, basePrice |-> 0],
     [id |-> 3, name |-> "Jersey Number", maxLength |-> 3, basePrice |-> 0] >>,
   placements |-> <<
     [id |-> 1, name |-> "Chest", code |-> "chest", price |-> 5,
      coordinates |-> [x |-> 360, y |-> 250, maxWidth |-> 200, maxHeight |-> 60]],
     [id |-> 2, name |-> "Back", code |-> "back", price |-> 5,
      coordinates |-> [x |-> 360, y |-> 300, maxWidth |-> 280, maxHeight |-> 100]],
     [id |-> 3, name |-> "Left Sleeve", code |-> "left_sleeve", price |-> 7,
      coordinates |-> [x |-> 150, y |-> 320, maxWidth |-> 80, maxHeight |-> 40,
                       rotation |-> -90]],
     [id |-> 4, name |-> "Right Sleeve", code |-> "right_sleeve", price |-> 7,
      coordinates |-> [x |-> 150, y |-> 320, maxWidth |-> 80, maxHeight |-> 40,
                       rotation |-> -90]] >>,
   fonts |-> <<
     [id |-> 1, name |-> "Standard", code |-> "standard", price |-> 0,
      fontFile |-> "Arial", displayName |-> "Standard Font (Free)"],
     [id |-> 2, name |-> "Varsity", code |-> "varsity", price |-> 3,
      fontFile |-> "Impact", displayName |-> "Varsity Style (+$3)"],
     [id |-> 3, name |-> "Script", code |-> "script", price |-> 5,
      fontFile |-> "BrushScriptMT", displayName |-> "Script Style (+$5)"],
     [id |-> 4, name |-> "Modern", code |-> "modern", price |-> 3,
      fontFile |-> "HelveticaNeue-Light", displayName |-> "Modern Style (+$3)"] >>]

\* The literal the simple server creates on first access.
DefaultSettingsSimple ==
  [textOptions |-> <<
     [id |-> 1, name |-> "Player Name", maxLength |-> 15, basePrice |-> 0],
     [id |-> 2, name |-> "Custom Text", maxLength |-> 25, basePrice |-> 0],
     [id |-> 3, name |-> "Jersey Number", maxLength |-> 3, basePrice |-> 0] >>,
   placements |-> <<
     [id |-> 1, name |-> "Chest", code |-> "chest", price |-> 5],
     [id |-> 2, name |-> "Back", code |-> "back", price |-> 5],
     [id |-> 3, name |-> "Left Sleeve", code |-> "left_sleeve", price |-> 7],
     [id |-> 4, name |-> "Right Sleeve", code |-> "right_sleeve", price |-> 7] >>,
   fonts |-> <<
     [id |-> 1, name |-> "Standard", code |-> "standard", price |-> 0,
      displayName |-> "Standard Font (Free)"],
     [id |-> 2, name |-> "Varsity", code |-> "varsity", price |-> 3,
      displayName |-> "Varsity Style (+$3)"],
     [id |-> 3, name |-> "Script", code |-> "script", price |-> 5,
      displayName |-> "Script Style (+$5)"],
     [id |-> 4, name |-> "Modern", code |-> "modern", price |-> 3,
      displayName |-> "Modern Style (+$3)"] >>]

DefaultSettings(srv) ==
  IF srv = "part_000" THEN DefaultSettingsFull ELSE DefaultSettingsSimple

\* The catalog part of a settings document or of an object.
CatalogPaths == {"textOptions", "placements", "fonts"}
CatalogOf(doc) == Restrict(doc, CatalogPaths)

(* --------------------- the GlobalSettings collection ------------------ *)
\* A stored document: mongoose reads an array path that was never written
\* as the empty array.
newSettingsDoc(id, shop, obj, t) ==
  [_id |-> id,
   shopDomain  |-> IF "shopDomain" \in DOMAIN obj THEN obj.shopDomain ELSE shop,
   textOptions |-> IF "textOptions" \in DOMAIN obj THEN obj.textOptions ELSE <<>>,
   placements  |-> IF "placements" \in DOMAIN obj THEN obj.placements ELSE <<>>,
   fonts       |-> IF "fonts" \in DOMAIN obj THEN obj.fonts ELSE <<>>,
   updatedAt   |-> IF "updatedAt" \in DOMAIN obj THEN obj.updatedAt ELSE t]

\* The unique index on shopDomain (schema option unique: true): a write
\* that would leave two documents with one shopDomain is refused (E11000).
uniqueViolation(coll, doc) ==
  \E d \in coll : d._id # doc._id /\ d.shopDomain = doc.shopDomain

\* Model.findOne({ shopDomain: shop }): a matching document, or null.
findOne(coll, shop) ==
  IF \E d \in coll : d.shopDomain = shop
    THEN Some(CHOOSE d \in coll : d.shopDomain = shop)
    ELSE None

\* Model.create(obj): the outcome and the collection after it.
create(srv, coll, id, obj, t) ==
  LET doc == newSettingsDoc(id, obj.shopDomain, castSettings(srv, obj), t)
  IN IF uniqueViolation(coll, doc)
       THEN [ok |-> FALSE, message |-> "E11000 duplicate key error", coll |-> coll]
       ELSE [ok |-> TRUE, doc |-> doc, coll |-> coll \cup {doc}]

\* Model.findOneAndUpdate({ shopDomain: shop }, update, { new: true,
\* upsert: true }): one atomic operation of the store.  The update's paths
\* are $set on the matching document; with no match a document is built
\* from the filter's equality and the update, and inserted.
findOneAndUpdate(srv, coll, id, shop, update, t) ==
  LET set == castSettings(srv, update)
      old == findOne(coll, shop)
      doc == IF old.some
               THEN [k \in DOMAIN old.v |->
                       IF k \in DOMAIN set THEN set[k] ELSE old.v[k]]
               ELSE newSettingsDoc(id, shop, set, t)
      rest == IF old.some THEN coll \ {old.v} ELSE coll
  IN IF uniqueViolation(rest, doc)
       THEN [ok |-> FALSE, message |-> "E11000 duplicate key error", coll |-> coll]
       ELSE [ok |-> TRUE, doc |-> doc, coll |-> rest \cup {doc}]

(* --------------------------- order payloads --------------------------- *)
Prop(n, val) == [name |-> n, value |-> val]

\* A line item personalised with a player name on two placements.
ItemPlayer ==
  [id |-> 11, product_id |-> 501, variant_id |-> 601, sku |-> "JERSEY",
   title |-> "Jersey", quantity |-> 1,
   properties |-> << Prop("Player Name", Str("Smith")),
                     Prop("Placement", Str("Chest, Back")) >>]
\* A line item with no properties at all.
ItemPlain ==
  [id |-> 12, product_id |-> 502, variant_id |-> 602, sku |-> "CAP",
   title |-> "Cap", quantity |-> 2]
\* A line item whose only trigger property is empty.
ItemEmptyText ==
  [id |-> 13, product_id |-> 501, variant_id |-> 601, sku |-> "JERSEY",
   title |-> "Jersey", quantity |-> 1,
   properties |-> << Prop("Custom Text", Str("")),
                     Prop("Placement", Str("Chest")) >>]
\* A line item whose jersey number arrives as a JSON number.
ItemNumber ==
  [id |-> 14, product_id |-> 501, variant_id |-> 601, sku |-> "JERSEY",
   title |-> "Jersey", quantity |-> 1,
   properties |-> << Prop("Jersey Number", Num("7")),
                     Prop("Placement", Str("Chest")) >>]

\* Order payloads, as the parsed JSON body of the webhook: a payload that
\* lacks a field has no such key.
OrderCustom ==
  [id |-> 1001, name |-> "#1001", email |-> "a@example.com",
   customer |-> [first_name |-> "Ann", last_name |-> "Lee"],
   created_at |-> "2024-01-01", line_items |-> <<ItemPlayer, ItemPlain>>]
OrderPlain ==
  [id |-> 1002, name |-> "#1002", email |-> "b@example.com",
   created_at |-> "2024-01-02", line_items |-> <<ItemPlain, ItemEmptyText>>]
OrderNumber ==
  [id |-> 1003, name |-> "#1003", email |-> "c@example.com",
   created_at |-> "2024-01-03", line_items |-> <<ItemNumber>>]
OrderNoLineItems ==
  [id |-> 1004, name |-> "#1004", email |-> "d@example.com",
   created_at |-> "2024-01-04"]
OrderNoId ==
  [name |-> "#1005", email |-> "e@example.com",
   created_at |-> "2024-01-05", line_items |-> <<ItemPlayer>>]
OrderNoName ==
  [id |-> 1006, email |-> "f@example.com",
   created_at |-> "2024-01-06", line_items |-> <<ItemPlayer>>]

Orders == {OrderCustom, OrderPlain, OrderNumber, OrderNoLineItems,
           OrderNoId, OrderNoName}

\* The webhook deliveries: the shop of the x-shopify-shop-domain header, the
\* order of the body, and whether the x-shopify-hmac-sha256 header is the
\* HMAC of the body under the secret shared with the platform.
Delivery(shop, order, hmacOk) == [shop |-> shop, order |-> order, hmacOk |-> hmacOk]
Deliveries ==
  {Delivery("s1", order, TRUE) : order \in Orders}
    \cup {Delivery("s1", OrderCustom, FALSE), Delivery("s2", OrderCustom, TRUE)}

(* ------------------------- candidate extraction ----------------------- *)
\* A slip in line 287: a name already in the map keeps its first value.
RECURSIVE buildPropsFirstWins(_, _)
buildPropsFirstWins(properties, props) ==
  IF properties = <<>> THEN props
  ELSE LET prop == Head(properties)
       IN buildPropsFirstWins(Tail(properties),
            [k \in (DOMAIN props) \cup {prop.name} |->
               IF k \in DOMAIN props THEN props[k] ELSE prop.value])

\* props = {}; item.properties.forEach(prop => props[prop.name] = prop.value)
RECURSIVE buildProps(_, _)
buildProps(properties, props) ==
  IF properties = <<>> THEN props
  ELSE LET prop == Head(properties)
       IN buildProps(Tail(properties),
            [k \in (DOMAIN props) \cup {prop.name} |->
               IF k = prop.name THEN prop.value ELSE props[k]])

\* The empty object {}.
EmptyObject == [k \in {} |-> Undefined]

\* A slip in the || chain: the keys are tried in the reverse order.
triggerValueReversed(props) ==
  Or(Get(props, "Custom Message"),
     Or(Get(props, "Jersey Number"),
        Or(Get(props, "Player Name"), Get(props, "Custom Text"))))

\* props['Custom Text'] || props['Player Name'] || props['Jersey Number']
\*   || props['Custom Message']
triggerValue(props) ==
  Or(Get(props, "Custom Text"),
     Or(Get(props, "Player Name"),
        Or(Get(props, "Jersey Number"), Get(props, "Custom Message"))))

\* A slip in the test of line 291: only the first trigger key is looked at.
hasCustomizationFirstKeyOnly(props) == Truthy(Get(props, "Custom Text"))

hasCustomization(props) == Truthy(triggerValue(props))

\* The entry pushed to customizedItems for a line item.
customizedItem(item, props) ==
  [lineItemId |-> item.id, productId |-> item.product_id,
   variantId |-> item.variant_id, sku |-> item.sku, title |-> item.title,
   quantity |-> item.quantity, properties |-> props]

\* for (const item of order.line_items) { ... }
RECURSIVE customizedItemsOf(_)
customizedItemsOf(items) ==
  IF items = <<>> THEN <<>>
  ELSE LET item == Head(items)
           rest == customizedItemsOf(Tail(items))
       IN IF "properties" \in DOMAIN item /\ Len(item.properties) > 0
            THEN LET props == buildProps(item.properties, EmptyObject)
                 IN IF hasCustomization(props)
                      THEN <<customizedItem(item, props)>> \o rest
                      ELSE rest
            ELSE rest

(* ----------------------- the OrderQueue collection -------------------- *)
\* `${order.customer?.first_name || ''} ${order.customer?.last_name || ''}`.trim()
customerName(order) ==
  LET c == IF "customer" \in DOMAIN order THEN order.customer ELSE EmptyObject
      first == IF "first_name" \in DOMAIN c THEN c.first_name ELSE ""
      last  == IF "last_name" \in DOMAIN c THEN c.last_name ELSE ""
  IN trim(Template(first, last))

\* The document OrderQueue.create builds; processedAt and error are unset,
\* createdAt takes the schema default Date.now.
newQueueEntry(id, shop, order, items, t) ==
  [_id |-> id,
   shopDomain |-> shop,
   orderId |-> ToString(order.id),
   orderNumber |-> IF "name" \in DOMAIN order THEN Some(order.name) ELSE None,
   orderData |-> [customer |-> [email |-> IF "email" \in DOMAIN order
                                           THEN Some(order.email) ELSE None,
                                name |-> customerName(order)],
                  createdAt |-> IF "created_at" \in DOMAIN order
                                  THEN Some(order.created_at) ELSE None],
   customizations |-> [items |-> items],
   status |-> "pending",
   processedAt |-> None,
   error |-> None,
   createdAt |-> t]

(* ---------------------- production file generation -------------------- *)
\* The outcome of a piece of code that may throw.
Returned(x) == [threw |-> FALSE, value |-> x]
Threw(msg) == [threw |-> TRUE, message |-> msg]

\* x === y for a catalog string x and a property value y.
StrictEquals(x, y) == y.type = "string" /\ y.v = x

\* array.find(pred): the first matching element, or undefined.
RECURSIVE findFont(_, _)
findFont(fonts, fontDisplay) ==
  IF fonts = <<>> THEN None
  ELSE IF "displayName" \in DOMAIN Head(fonts)
          /\ StrictEquals(Head(fonts).displayName, fontDisplay)
    THEN Some(Head(fonts))
    ELSE findFont(Tail(fonts), fontDisplay)

\* A slip in the test of line 376: the names are compared ignoring case.
RECURSIVE findPlacementIgnoringCase(_, _)
findPlacementIgnoringCase(placements, placementName) ==
  IF placements = <<>> THEN None
  ELSE IF "name" \in DOMAIN Head(placements)
          /\ toUpperCase(Head(placements).name) = toUpperCase(placementName)
    THEN Some(Head(placements))
    ELSE findPlacementIgnoringCase(Tail(placements), placementName)

RECURSIVE findPlacement(_, _)
findPlacement(placements, placementName) ==
  IF placements = <<>> THEN None
  ELSE IF "name" \in DOMAIN Head(placements)
          /\ Head(placements).name = placementName
    THEN Some(Head(placements))
    ELSE findPlacement(Tail(placements), placementName)

\* A slip in line 372: the fallback to the first font is left out.
resolveFontWithoutFallback(settings, fontDisplay) ==
  IF ~settings.some THEN None ELSE findFont(settings.v.fonts, fontDisplay)

\* settings?.fonts.find(f => f.displayName === fontDisplay) || settings?.fonts[0]
resolveFont(settings, fontDisplay) ==
  IF ~settings.some THEN None
  ELSE LET found == findFont(settings.v.fonts, fontDisplay)
       IN IF found.some THEN found
          ELSE IF settings.v.fonts # <<>> THEN Some(settings.v.fonts[1])
          ELSE None

\* font?.code || 'standard'
fontCode(font) ==
  IF font.some /\ "code" \in DOMAIN font.v /\ font.v.code # ""
    THEN font.v.code
    ELSE "standard"

\* The object pushed to customizations for one matched placement.
customization(customText, placement, font) ==
  [type |-> "text",
   value |-> toUpperCase(customText.v),
   placement |-> IF "code" \in DOMAIN placement
                   THEN Some(placement.code) ELSE None,
   font |-> fontCode(font),
   color |-> "white",
   coordinates |-> IF "coordinates" \in DOMAIN placement
                     THEN Some(placement.coordinates) ELSE None]

\* placements.forEach(placementName => { ... }): customText.toUpperCase()
\* throws a TypeError when the text is not a string.
RECURSIVE forEachPlacement(_, _, _, _)
forEachPlacement(names, settings, customText, font) ==
  IF names = <<>> THEN Returned(<<>>)
  ELSE LET placement == IF settings.some
                          THEN findPlacement(settings.v.placements, Head(names))
                          ELSE None
       IN IF ~placement.some
            THEN forEachPlacement(Tail(names), settings, customText, font)
          ELSE IF customText.type # "string"
            THEN Threw("customText.toUpperCase is not a function")
          ELSE LET rest == forEachPlacement(Tail(names), settings, customText, font)
               IN IF rest.threw THEN rest
                  ELSE Returned(<<customization(customText, placement.v, font)>>
                                  \o rest.value)

\* The customizations of one queued item (the body of the for loop).
customizationsOf(item, settings) ==
  LET props == item.properties
      placementProp == Get(props, "Placement")
  IN IF Truthy(placementProp) /\ placementProp.type # "string"
       THEN Threw("props.Placement.split is not a function")
     ELSE
       LET placements == IF Truthy(placementProp)
                           THEN LET parts == split(placementProp.v)
                                IN [i \in DOMAIN parts |-> trim(parts[i])]
                           ELSE <<>>
           customText == Or(triggerValue(props), Str(""))
       IN IF Truthy(customText) /\ Len(placements) > 0
            THEN LET fontDisplay == Or(Get(props, "Font Style"),
                                       Str("Standard Font (Free)"))
                     font == resolveFont(settings, fontDisplay)
                 IN forEachPlacement(placements, settings, customText, font)
            ELSE Returned(<<>>)

\* The line item pushed to productionData.line_items.
productionLineItem(item, customizations) ==
  [id |-> item.lineItemId, product_id |-> item.productId,
   variant_id |-> item.variantId, sku |-> item.sku, title |-> item.title,
   quantity |-> item.quantity, customizations |-> customizations]

\* A slip in line 390: the test customizations.length > 0 is left out.
RECURSIVE productionLineItemsKeepingEmpty(_, _)
productionLineItemsKeepingEmpty(items, settings) ==
  IF items = <<>> THEN Returned(<<>>)
  ELSE LET first == customizationsOf(Head(items), settings)
       IN IF first.threw THEN first
          ELSE LET rest == productionLineItemsKeepingEmpty(Tail(items), settings)
               IN IF rest.threw THEN rest
                  ELSE Returned(<<productionLineItem(Head(items), first.value)>>
                                  \o rest.value)

\* for (const item of queueEntry.customizations.items) { ... }
RECURSIVE productionLineItems(_, _)
productionLineItems(items, settings) ==
  IF items = <<>> THEN Returned(<<>>)
  ELSE LET first == customizationsOf(Head(items), settings)
       IN IF first.threw THEN first
          ELSE LET rest == productionLineItems(Tail(items), settings)
               IN IF rest.threw THEN rest
                  ELSE IF Len(first.value) > 0
                    THEN Returned(<<productionLineItem(Head(items), first.value)>>
                                    \o rest.value)
                    ELSE rest

\* productionData as generateProductionFile assembles it from the queue
\* entry and the shop's settings (null when the shop has none) at time t.
productionDataOf(queueEntry, settings, t) ==
  LET lines == productionLineItems(queueEntry.customizations.items, settings)
  IN IF lines.threw THEN lines
     ELSE Returned([order_id |-> queueEntry.orderId,
                    order_number |-> queueEntry.orderNumber,
                    created_at |-> t,
                    customer |-> queueEntry.orderData.customer,
                    line_items |-> lines.value])

(* ------------------------------- state -------------------------------- *)
VARIABLES
  server,          \* which server runs: "part_000" (full) or "server.js"
  secret,          \* whether process.env.SHOPIFY_WEBHOOK_SECRET is set
  GlobalSettings,  \* the settings collection: a set of documents
  Customization,   \* the product customization collection: a set of documents
  OrderQueue,      \* the order queue collection: a set of documents
  handler,         \* handler[h]: the request handler h and its locals
  productionLog,   \* the production data logged so far (line 408)
  now              \* the clock

vars == <<server, secret, GlobalSettings, Customization, OrderQueue, handler,
          productionLog, now>>

NoResponse == [status |-> 0, body |-> EmptyObject]
Response(code, body) == [status |-> code, body |-> body]

\* A handler before its request arrives.  route, shop, productId, query,
\* body and hmacOk are the request; update is the update object the toggle
\* route built; queueEntry is the mongoose document the
\* webhook handler holds in memory; caught is the message of the error
\* generateProductionFile caught; productionData is its local of that name;
\* res is the response.
IdleHandler ==
  [pc |-> "idle", route |-> "none", shop |-> "", productId |-> "",
   query |-> [status |-> None, limit |-> None], body |-> EmptyObject,
   update |-> EmptyObject,
   hmacOk |-> TRUE, queueEntry |-> None, caught |-> None,
   productionData |-> None, created |-> FALSE, res |-> NoResponse]

\* Bodies of PUT /api/settings/:shop.
CustomCatalog ==
  [textOptions |-> << [id |-> 1, name |-> "Initials", maxLength |-> 3,
                       basePrice |-> 2] >>,
   placements |-> << [id |-> 1, name |-> "Chest", code |-> "front", price |-> 4,
                      coordinates |-> [x |-> 10, y |-> 20, maxWidth |-> 30,
                                       maxHeight |-> 40, rotation |-> 0]] >>,
   fonts |-> << [id |-> 1, name |-> "Block", code |-> "block", price |-> 2,
                 fontFile |-> "Courier", displayName |-> "Block (+$2)"] >>]
EmptyLists == [placements |-> <<>>, fonts |-> <<>>]
OtherShop == [shopDomain |-> "s2"]
SettingsBodies == {CustomCatalog, EmptyLists, OtherShop}

Init ==
  /\ server \in {"part_000", "server.js"}
  /\ secret \in BOOLEAN
  /\ (server = "server.js" => ~secret)
  /\ GlobalSettings = {}
  /\ Customization = {}
  /\ OrderQueue = {}
  /\ handler = [h \in Handlers |-> IdleHandler]
  /\ productionLog = {}
  /\ now = 0

(* --------------------- GET /api/settings/:shop ------------------------ *)
\* The request arrives and findOne answers: an existing document is sent
\* as it is; with none the handler goes on to create the default.
GetSettingsFindOne(h, shop) ==
  /\ handler[h].pc = "idle"
  /\ LET settings == findOne(GlobalSettings, shop)
         req == [handler[h] EXCEPT !.route = "GET settings", !.shop = shop]
     IN handler' = [handler EXCEPT ![h] =
          IF settings.some
            THEN [req EXCEPT !.pc = "done", !.res = Response(200, settings.v)]
            ELSE [req EXCEPT !.pc = "create"]]
  /\ UNCHANGED <<server, secret, Customization, GlobalSettings, OrderQueue, productionLog, now>>

\* The object passed to create: the shop and the default catalog.
defaultSettingsObject(srv, shop) ==
  LET d == DefaultSettings(srv)
  IN [shopDomain |-> shop, textOptions |-> d.textOptions,
      placements |-> d.placements, fonts |-> d.fonts]

\* create answers: the created document is sent, or the error is (500).
GetSettingsCreate(h) ==
  /\ handler[h].pc = "create"
  /\ LET r == create(server, GlobalSettings, h,
                     defaultSettingsObject(server, handler[h].shop), now)
     IN /\ GlobalSettings' = r.coll
        /\ handler' = [handler EXCEPT ![h] =
             IF r.ok
               THEN [@ EXCEPT !.pc = "done", !.created = TRUE,
                              !.res = Response(200, r.doc)]
               ELSE [@ EXCEPT !.pc = "done",
                              !.res = Response(500, [error |-> r.message])]]
  /\ UNCHANGED <<server, secret, Customization, OrderQueue, productionLog, now>>

(* --------------------- PUT /api/settings/:shop ------------------------ *)
\* { ...req.body, updatedAt: new Date() }
settingsUpdate(body, t) ==
  [k \in (DOMAIN body) \cup {"updatedAt"} |->
     IF k = "updatedAt" THEN t ELSE body[k]]

PutSettings(h, shop, body) ==
  /\ handler[h].pc = "idle"
  /\ LET r == findOneAndUpdate(server, GlobalSettings, h, shop,
                               settingsUpdate(body, now), now)
         req == [handler[h] EXCEPT !.route = "PUT settings", !.shop = shop,
                                   !.body = body, !.pc = "done"]
     IN /\ GlobalSettings' = r.coll
        /\ handler' = [handler EXCEPT ![h] =
             IF r.ok
               THEN [req EXCEPT !.res = Response(200, r.doc)]
               ELSE [req EXCEPT !.res = Response(500, [error |-> r.message])]]
  /\ UNCHANGED <<server, secret, Customization, OrderQueue, productionLog, now>>

(* -------------------- POST /webhooks/orders/create -------------------- *)
\* typeof req.body after the middleware (bodyParser.json() before
\* bodyParser.raw()): a JSON body is parsed by the first parser, so the
\* handler is given the parsed object, never the raw bytes.
typeofBody == "object"

\* The verification block.  hmac.update(body, 'utf8') takes a string or a
\* Buffer and throws a TypeError for anything else; hmacOk says whether the
\* x-shopify-hmac-sha256 header is the HMAC of the body under the shared
\* secret.  Returned(TRUE): go on; Returned(FALSE): 401.
verifyWebhook(secretSet, bodyType, hmacOk) ==
  IF ~secretSet THEN Returned(TRUE)
  ELSE IF bodyType \notin {"string", "buffer"}
    THEN Threw("The data argument must be of type string or Buffer")
  ELSE Returned(hmacOk)

\* Lines 276-303: the customized items of the order; order.line_items of a
\* payload without line items is undefined, and for...of throws on it.
extractCustomizedItems(order) ==
  IF "line_items" \notin DOMAIN order
    THEN Threw("order.line_items is not iterable")
    ELSE Returned(customizedItemsOf(order.line_items))

\* The simple server's webhook: logs and answers 200.
WebhookStub(h, shop, order, hmacOk) ==
  /\ server = "server.js"
  /\ handler[h].pc = "idle"
  /\ handler' = [handler EXCEPT ![h] =
       [@ EXCEPT !.route = "POST webhook", !.shop = shop, !.body = order,
                 !.hmacOk = hmacOk, !.pc = "done",
                 !.res = Response(200, [text |-> "OK"])]]
  /\ UNCHANGED <<server, secret, Customization, GlobalSettings, OrderQueue, productionLog, now>>

\* The full server's webhook up to the end of OrderQueue.create: verify,
\* parse, collect the customized items and, if there are any, create the
\* queue entry; generateProductionFile then starts and awaits findOne.
\* Everything that throws on the way is caught by the handler's catch (500).
WebhookReceive(h, shop, order, hmacOk) ==
  /\ server = "part_000"
  /\ handler[h].pc = "idle"
  /\ LET req == [handler[h] EXCEPT !.route = "POST webhook", !.shop = shop,
                                  !.body = order, !.hmacOk = hmacOk]
         verified == verifyWebhook(secret, typeofBody, hmacOk)
         items == extractCustomizedItems(order)
         respond(code, body) ==
           /\ handler' = [handler EXCEPT ![h] =
                [req EXCEPT !.pc = "done", !.res = Response(code, body)]]
           /\ UNCHANGED OrderQueue
     IN IF verified.threw THEN respond(500, [error |-> verified.message])
        ELSE IF ~verified.value THEN respond(401, [text |-> "Unauthorized"])
        ELSE IF items.threw THEN respond(500, [error |-> items.message])
        ELSE IF Len(items.value) = 0 THEN respond(200, [text |-> "OK"])
        ELSE IF "id" \notin DOMAIN order
          THEN respond(500, [error |-> "Cannot read properties of undefined (reading 'toString')"])
        ELSE LET queueEntry == newQueueEntry(h, shop, order, items.value, now)
             IN /\ OrderQueue' = OrderQueue \cup {queueEntry}
                /\ handler' = [handler EXCEPT ![h] =
                     [req EXCEPT !.pc = "gpfFindOne",
                                 !.queueEntry = Some(queueEntry)]]
  /\ UNCHANGED <<server, secret, Customization, GlobalSettings, productionLog, now>>

\* A slip in lines 404-405: the processed timestamp is not set.
markCompletedWithoutTimestamp(queueEntry, t) ==
  [queueEntry EXCEPT !.status = "completed"]

\* queueEntry.status = 'completed'; queueEntry.processedAt = new Date()
markCompleted(queueEntry, t) ==
  [queueEntry EXCEPT !.status = "completed", !.processedAt = Some(t)]

\* A slip in the catch block: an entry already marked completed is left so.
markErrorUnlessCompleted(queueEntry, msg) ==
  IF queueEntry.status = "completed" THEN queueEntry
  ELSE [queueEntry EXCEPT !.status = "error", !.error = Some(msg)]

\* queueEntry.status = 'error'; queueEntry.error = error.message
markError(queueEntry, msg) ==
  [queueEntry EXCEPT !.status = "error", !.error = Some(msg)]

\* The catch block of generateProductionFile: the in-memory entry is
\* marked and its save awaited.
catchError(hd, msg) ==
  [hd EXCEPT !.pc = "saveError", !.caught = Some(msg),
             !.queueEntry = Some(markError(hd.queueEntry.v, msg))]

\* A slip in the write: the record is matched by its order, not by its _id.
saveByOrderId(coll, doc) ==
  {d \in coll : d.orderId # doc.orderId \/ d.shopDomain # doc.shopDomain} \cup {doc}

\* queueEntry.save(): the stored document takes the in-memory one's values.
save(coll, doc) == {d \in coll : d._id # doc._id} \cup {doc}

\* GlobalSettings.findOne answers (or fails, dbOk = FALSE) and the
\* production data is assembled; then the entry is marked completed and its
\* save awaited.  An exception goes to the catch block.
GpfFindOne(h, dbOk) ==
  /\ handler[h].pc = "gpfFindOne"
  /\ LET queueEntry == handler[h].queueEntry.v
         settings == findOne(GlobalSettings, queueEntry.shopDomain)
         data == productionDataOf(queueEntry, settings, now)
     IN handler' = [handler EXCEPT ![h] =
          IF ~dbOk THEN catchError(@, "MongoNetworkError: findOne failed")
          ELSE IF data.threw THEN catchError(@, data.message)
          ELSE [@ EXCEPT !.pc = "saveCompleted",
                         !.productionData = Some(data.value),
                         !.queueEntry = Some(markCompleted(queueEntry, now))]]
  /\ UNCHANGED <<server, secret, Customization, GlobalSettings, OrderQueue, productionLog, now>>

\* The save of the completed entry answers: the production data is logged
\* and the webhook answers 200; a failed save goes to the catch block.
GpfSaveCompleted(h, dbOk) ==
  /\ handler[h].pc = "saveCompleted"
  /\ IF dbOk
       THEN /\ OrderQueue' = save(OrderQueue, handler[h].queueEntry.v)
            /\ productionLog' = productionLog \cup
                 {[queueId |-> h, data |-> handler[h].productionData.v]}
            /\ handler' = [handler EXCEPT ![h] =
                 [@ EXCEPT !.pc = "done", !.res = Response(200, [text |-> "OK"])]]
       ELSE /\ handler' = [handler EXCEPT ![h] =
                 catchError(@, "MongoNetworkError: save failed")]
            /\ UNCHANGED <<OrderQueue, productionLog>>
  /\ UNCHANGED <<server, secret, Customization, GlobalSettings, now>>

\* The save inside the catch block answers: the webhook answers 200; if
\* this save fails too, its error leaves generateProductionFile and is
\* caught by the webhook handler (500).
GpfSaveError(h, dbOk) ==
  /\ handler[h].pc = "saveError"
  /\ IF dbOk
       THEN /\ OrderQueue' = save(OrderQueue, handler[h].queueEntry.v)
            /\ handler' = [handler EXCEPT ![h] =
                 [@ EXCEPT !.pc = "done", !.res = Response(200, [text |-> "OK"])]]
       ELSE /\ handler' = [handler EXCEPT ![h] =
                 [@ EXCEPT !.pc = "done",
                           !.res = Response(500, [error |-> "MongoNetworkError: save failed"])]]
            /\ UNCHANGED OrderQueue
  /\ UNCHANGED <<server, secret, Customization, GlobalSettings, productionLog, now>>

(* ------------- PUT /api/customization/:shop/:productId ----------------- *)
\* The paths the customization schema declares in each server.
CustomizationPaths(srv) ==
  IF srv = "part_000"
    THEN {"shopDomain", "productId", "enabled", "textOptions",
          "availablePlacements", "availableFonts", "defaultFont",
          "createdAt", "updatedAt"}
    ELSE {"shopDomain", "productId", "enabled", "settings", "updatedAt"}

\* The schema defaults a document inserted by the upsert gets.
customizationDefaults(srv, t) ==
  IF srv = "part_000"
    THEN [enabled |-> FALSE, textOptions |-> <<>>, availablePlacements |-> <<>>,
          availableFonts |-> <<>>, defaultFont |-> 1, createdAt |-> t,
          updatedAt |-> t]
    ELSE [enabled |-> FALSE, updatedAt |-> t]

\* { ...req.body, shopDomain: shop, productId, updatedAt: new Date() }
customizationUpdate(body, shop, productId, t) ==
  [k \in (DOMAIN body) \cup {"shopDomain", "productId", "updatedAt"} |->
     CASE k = "shopDomain" -> shop
       [] k = "productId"  -> productId
       [] k = "updatedAt"  -> t
       [] OTHER            -> body[k]]

\* An object with the fields of new, and those of old that new lacks.
Merge(new, old) ==
  [k \in (DOMAIN new) \cup (DOMAIN old) |-> IF k \in DOMAIN new THEN new[k] ELSE old[k]]

\* The documents the filter { shopDomain: shop, productId } matches.  The
\* schema declares no index on the pair, so nothing keeps them to one.
matchingCustomizations(coll, shop, productId) ==
  {d \in coll : d.shopDomain = shop /\ d.productId = productId}

\* The update applied to a matched document d.
updateCustomization(srv, coll, d, update) ==
  LET doc == Merge(Restrict(update, CustomizationPaths(srv)), d)
  IN [doc |-> doc, coll |-> (coll \ {d}) \cup {doc}]

\* The insert of the upsert when the filter matched nothing.
insertCustomization(srv, coll, id, update, t) ==
  LET doc == Merge(Restrict(update, CustomizationPaths(srv)),
                   Merge([_id |-> id], customizationDefaults(srv, t)))
  IN [doc |-> doc, coll |-> coll \cup {doc}]

\* Customization.findOneAndUpdate({ shopDomain, productId }, update,
\* { new: true, upsert: true }) run with no other write in between: the
\* document after the update and the collection after it.
upsertCustomization(srv, coll, id, shop, productId, update, t) ==
  LET matches == matchingCustomizations(coll, shop, productId)
  IN IF matches = {}
       THEN insertCustomization(srv, coll, id, update, t)
       ELSE updateCustomization(srv, coll, CHOOSE x \in matches : TRUE, update)

\* Bodies of the toggle route, and the requests the model sends.
ToggleBodies == {[enabled |-> TRUE], [enabled |-> FALSE, shopDomain |-> "s2"]}
ToggleRequest(shop, productId, body) ==
  [shop |-> shop, productId |-> productId, body |-> body]
ToggleRequests == {ToggleRequest("s1", "501", body) : body \in ToggleBodies}

\* The request arrives and the database runs the query of the upsert: a
\* matched document is updated and sent; with none the upsert goes on to
\* insert.  Query and insert are not one atomic step of the database: only
\* a unique index on the filter's fields would keep two upserts from both
\* finding nothing and both inserting.
PutCustomization(h, shop, productId, body) ==
  /\ handler[h].pc = "idle"
  /\ LET update == customizationUpdate(body, shop, productId, now)
         matches == matchingCustomizations(Customization, shop, productId)
         req == [handler[h] EXCEPT !.route = "PUT customization", !.shop = shop,
                                   !.productId = productId, !.body = body,
                                   !.update = update]
     IN IF matches = {}
          THEN /\ handler' = [handler EXCEPT ![h] = [req EXCEPT !.pc = "upsertInsert"]]
               /\ UNCHANGED Customization
          ELSE \E d \in matches :
                 LET r == updateCustomization(server, Customization, d, update)
                 IN /\ Customization' = r.coll
                    /\ handler' = [handler EXCEPT ![h] =
                         [req EXCEPT !.pc = "done", !.res = Response(200, r.doc)]]
  /\ UNCHANGED <<server, secret, GlobalSettings, OrderQueue, productionLog, now>>

\* The insert of the upsert.  When another upsert has inserted a matching
\* document since the query, the database either inserts all the same or
\* (retry, after a write conflict) runs the upsert again and updates the
\* document it now finds.
PutCustomizationInsert(h, retry) ==
  /\ handler[h].pc = "upsertInsert"
  /\ LET matches == matchingCustomizations(Customization, handler[h].shop,
                                           handler[h].productId)
         answer(r) ==
           /\ Customization' = r.coll
           /\ handler' = [handler EXCEPT ![h] =
                [@ EXCEPT !.pc = "done", !.res = Response(200, r.doc)]]
     IN IF retry /\ matches # {}
          THEN \E d \in matches :
                 answer(updateCustomization(server, Customization, d, handler[h].update))
          ELSE answer(insertCustomization(server, Customization, h,
                                          handler[h].update, now))
  /\ UNCHANGED <<server, secret, GlobalSettings, OrderQueue, productionLog, now>>

(* ------------------------ GET /api/orders/:shop ------------------------ *)
\* const { status, limit = 50 } = req.query
DefaultLimit == 50

Digits == "0123456789"
IsDigit(c) == \E i \in 1..Len(Digits) : SubSeq(Digits, i, i) = c
DigitValue(c) == (CHOOSE i \in 1..Len(Digits) : SubSeq(Digits, i, i) = c) - 1

\* The number the leading digits of s spell, after acc.
RECURSIVE parseDigits(_, _)
parseDigits(s, acc) ==
  IF s = "" \/ ~IsDigit(SubSeq(s, 1, 1)) THEN acc
  ELSE parseDigits(Tail(s), 10 * acc + DigitValue(SubSeq(s, 1, 1)))

\* parseInt(s) of an unsigned string: the number its leading digits spell,
\* NaN (None) when it does not start with a digit.
parseInt(s) ==
  IF s = "" \/ ~IsDigit(SubSeq(s, 1, 1)) THEN None ELSE Some(parseDigits(s, 0))

\* The query object: { shopDomain: shop }, with status when it is truthy.
queryMatches(d, shop, status) ==
  /\ d.shopDomain = shop
  /\ (status.some /\ status.v # "") => d.status = status.v

\* .sort({ createdAt: -1 }): the orders the sort may give, newest first;
\* documents of equal createdAt come in an order the database chooses.
sortedByCreatedAtDesc(docs) ==
  {seq \in [1..Cardinality(docs) -> docs] :
     /\ \A i \in DOMAIN seq, j \in DOMAIN seq : i # j => seq[i] # seq[j]
     /\ \A i \in DOMAIN seq, j \in DOMAIN seq :
          i < j => seq[i].createdAt >= seq[j].createdAt}

\* .limit(n): the first n documents; a limit of 0 is no limit (MongoDB).
limited(seq, n) ==
  IF n = 0 \/ n >= Len(seq) THEN seq ELSE SubSeq(seq, 1, n)

\* OrderQueue.find(query).sort({ createdAt: -1 }).limit(n): the results
\* the database may give.
find(coll, shop, status, n) ==
  {limited(seq, n) :
     seq \in sortedByCreatedAtDesc({d \in coll : queryMatches(d, shop, status)})}

\* The requests the model sends to the route: status and limit are the
\* strings of the query string, or absent.
OrdersRequest(shop, status, limit) == [shop |-> shop, status |-> status, limit |-> limit]
OrdersRequests ==
  { OrdersRequest("s1", None, None),
    OrdersRequest("s1", Some("pending"), Some("1")),
    OrdersRequest("s1", None, Some("0")),
    OrdersRequest("s2", Some(""), None) }

\* The handler of the full server (the simple one has no such route), for
\* a limit that parses to a number.
GetOrders(h, shop, status, limit) ==
  /\ server = "part_000"
  /\ handler[h].pc = "idle"
  /\ LET n == parseInt(IF limit.some THEN limit.v ELSE ToString(DefaultLimit))
     IN /\ n.some
        /\ \E orders \in find(OrderQueue, shop, status, n.v) :
             handler' = [handler EXCEPT ![h] =
               [@ EXCEPT !.route = "GET orders", !.shop = shop,
                         !.query = [status |-> status, limit |-> limit],
                         !.pc = "done",
                         !.res = Response(200, [orders |-> orders,
                                                count |-> Len(orders)])]]
  /\ UNCHANGED <<server, secret, GlobalSettings, Customization, OrderQueue,
                 productionLog, now>>

(* -------------------------------- clock ------------------------------- *)
Tick ==
  /\ now < MaxClock
  /\ now' = now + 1
  /\ UNCHANGED <<server, secret, Customization, GlobalSettings, OrderQueue, handler, productionLog>>

(* ---------------------------- specification --------------------------- *)
Next ==
  \/ \E h \in Handlers, shop \in Shops : GetSettingsFindOne(h, shop)
  \/ \E h \in Handlers : GetSettingsCreate(h)
  \/ \E h \in Handlers, shop \in Shops, body \in SettingsBodies :
       PutSettings(h, shop, body)
  \/ \E h \in Handlers, d \in Deliveries :
       WebhookStub(h, d.shop, d.order, d.hmacOk)
  \/ \E h \in Handlers, d \in Deliveries :
       WebhookReceive(h, d.shop, d.order, d.hmacOk)
  \/ \E h \in Handlers, dbOk \in BOOLEAN : GpfFindOne(h, dbOk)
  \/ \E h \in Handlers, dbOk \in BOOLEAN : GpfSaveCompleted(h, dbOk)
  \/ \E h \in Handlers, dbOk \in BOOLEAN : GpfSaveError(h, dbOk)
  \/ \E h \in Handlers, r \in ToggleRequests :
       PutCustomization(h, r.shop, r.productId, r.body)
  \/ \E h \in Handlers, retry \in BOOLEAN : PutCustomizationInsert(h, retry)
  \/ \E h \in Handlers, r \in OrdersRequests :
       GetOrders(h, r.shop, r.status, r.limit)
  \/ Tick

Spec == Init /\ [][Next]_vars

(* ------------------ resolve and replace, run alone --------------------- *)
\* GET /api/settings/:shop run with no other request in between: the
\* response and the collection after it.
resolve(srv, coll, id, shop, t) ==
  LET settings == findOne(coll, shop)
  IN IF settings.some
       THEN [res |-> Response(200, settings.v), coll |-> coll]
       ELSE LET r == create(srv, coll, id, defaultSettingsObject(srv, shop), t)
            IN [res |-> IF r.ok THEN Response(200, r.doc)
                                ELSE Response(500, [error |-> r.message]),
                coll |-> r.coll]

\* PUT /api/settings/:shop: the response and the collection after it.
replace(srv, coll, id, shop, body, t) ==
  LET r == findOneAndUpdate(srv, coll, id, shop, settingsUpdate(body, t), t)
  IN [res |-> IF r.ok THEN Response(200, r.doc)
                      ELSE Response(500, [error |-> r.message]),
      coll |-> r.coll]

(* ======================= the claims of the spec ======================= *)
Done(h) == handler[h].pc = "done"
IsWebhook(h) == handler[h].route = "POST webhook"
\* The stored intake records webhook handler h created.
RecordsOf(h) == {d \in OrderQueue : d._id = h}
\* Whether the delivery handler h received gets past the verification block.
PassedVerification(h) ==
  LET verified == verifyWebhook(secret, typeofBody, handler[h].hmacOk)
  IN ~verified.threw /\ verified.value

\* C1: the status of an intake record (the stored document, and the
\* document the handler holds and saves) only ever changes from pending to
\* completed or from pending to error; a completed or error status never
\* changes again, also when the save after `status = 'completed'` fails.
C1_StatusOnlyLeavesPending ==
  [][/\ \A h \in Handlers :
          (/\ handler[h].queueEntry.some
           /\ handler'[h].queueEntry.some
           /\ handler'[h].queueEntry.v.status # handler[h].queueEntry.v.status)
          => /\ handler[h].queueEntry.v.status = "pending"
             /\ handler'[h].queueEntry.v.status \in {"completed", "error"}
     /\ \A d \in OrderQueue, e \in OrderQueue' :
          (d._id = e._id /\ d.status # e.status)
          => (d.status = "pending" /\ e.status \in {"completed", "error"})
    ]_vars

\* C2: an order delivered twice is compiled to a production record at most
\* once: no two production records of the log are for the same order of the
\* same shop, and a record is claimed (pending -> processing) before it is
\* compiled.
C2_ProductionAtMostOncePerOrder ==
  \A p \in productionLog, q \in productionLog :
    (/\ p.data.order_id = q.data.order_id
     /\ \E d \in RecordsOf(p.queueId), e \in RecordsOf(q.queueId) :
          d.shopDomain = e.shopDomain)
    => p.queueId = q.queueId

\* A GET settings handler that found no catalog and went on to create one.
AttemptedCreate(h) ==
  /\ handler[h].route = "GET settings"
  /\ \/ handler[h].pc = "create"
     \/ handler[h].created
     \/ (Done(h) /\ handler[h].res.status = 500)

\* C3: when two resolve calls for one shop both find no catalog and both
\* attempt the creation, both return the default catalog and neither
\* returns an error.
C3_CreationRaceBothSucceed ==
  \A h1 \in Handlers, h2 \in Handlers :
    (/\ h1 # h2
     /\ AttemptedCreate(h1) /\ AttemptedCreate(h2)
     /\ handler[h1].shop = handler[h2].shop
     /\ Done(h1) /\ Done(h2))
    => \A h \in {h1, h2} :
         /\ handler[h].res.status = 200
         /\ CatalogOf(handler[h].res.body) = CatalogOf(DefaultSettings(server))

\* C4: an exception raised while a record is compiled is caught at the
\* record: once the webhook has answered, the stored record is in status
\* error with the exception's message, and the answer is 200.
C4_CompilationFailureIsCaptured ==
  \A h \in Handlers :
    (IsWebhook(h) /\ Done(h) /\ handler[h].caught.some)
    => /\ handler[h].res.status = 200
       /\ \A d \in RecordsOf(h) :
            d.status = "error" /\ d.error = handler[h].caught

\* The trigger keys of the spec (4.2), and what the spec calls a
\* customization candidate: a line item with properties whose property map
\* (last value of a name wins) holds a non-empty value under a trigger key.
TriggerKeys == {"Custom Text", "Player Name", "Jersey Number", "Custom Message"}
LastValue(properties, key) ==
  LET at == {i \in DOMAIN properties : properties[i].name = key}
  IN IF at = {} THEN Undefined
     ELSE properties[CHOOSE i \in at : \A j \in at : j <= i].value
IsCandidate(item) ==
  /\ "properties" \in DOMAIN item
  /\ \E key \in TriggerKeys : LastValue(item.properties, key).v # ""
HasCandidate(order) ==
  /\ "line_items" \in DOMAIN order
  /\ \E i \in DOMAIN order.line_items : IsCandidate(order.line_items[i])

\* C5: a delivery that reaches the core (full server, verification passed)
\* with an order that carries an id has an intake record if and only if the
\* order has a candidate, never more than one, and the record is pending
\* when it has just been created; an order without any non-empty trigger
\* property has no record, stored or held by the handler.
C5_RecordIffCandidate ==
  \A h \in Handlers :
    (IsWebhook(h) /\ server = "part_000" /\ PassedVerification(h))
    => LET order == handler[h].body
       IN /\ "id" \in DOMAIN order
               => (RecordsOf(h) # {} <=> HasCandidate(order))
          /\ Cardinality(RecordsOf(h)) <= 1
          /\ handler[h].queueEntry.some <=> RecordsOf(h) # {}
          /\ handler[h].pc = "gpfFindOne"
               => /\ handler[h].queueEntry.v.status = "pending"
                  /\ \A d \in RecordsOf(h) : d.status = "pending"
          /\ ~HasCandidate(order)
               => (RecordsOf(h) = {} /\ ~handler[h].queueEntry.some)

\* C5 witness: one delivery with a candidate has just created its pending
\* record, and another, without candidates, was answered with no record.
C5_Witness ==
  \E h1 \in Handlers, h2 \in Handlers :
    /\ IsWebhook(h1) /\ handler[h1].pc = "gpfFindOne"
    /\ \E d \in RecordsOf(h1) : d.status = "pending"
    /\ IsWebhook(h2) /\ Done(h2) /\ PassedVerification(h2)
    /\ server = "part_000"
    /\ "line_items" \in DOMAIN handler[h2].body
    /\ ~HasCandidate(handler[h2].body)
    /\ handler[h2].res.status = 200
    /\ RecordsOf(h2) = {}

RequiredFields == {"line_items", "id", "name"}

\* C6: a delivery that reaches the core with a payload missing line_items,
\* id or name is rejected (not answered 200) and has no intake record.
C6_MalformedPayloadRejected ==
  \A h \in Handlers :
    (/\ IsWebhook(h) /\ server = "part_000" /\ PassedVerification(h)
     /\ ~(RequiredFields \subseteq DOMAIN handler[h].body))
    => /\ RecordsOf(h) = {}
       /\ Done(h) => handler[h].res.status # 200

\* C7: a delivery whose signature does not verify is answered 401 and
\* leaves no intake record.
C7_BadSignatureUnauthorized ==
  \A h \in Handlers :
    (IsWebhook(h) /\ ~handler[h].hmacOk)
    => /\ RecordsOf(h) = {}
       /\ Done(h) => handler[h].res.status = 401

\* C8: the store holds at most one catalog per shop, and exactly one for
\* every shop on which a resolve or a replace has answered successfully.
C8_OneCatalogPerShop ==
  /\ \A d \in GlobalSettings, e \in GlobalSettings :
       d.shopDomain = e.shopDomain => d = e
  /\ \A h \in Handlers :
       (/\ handler[h].route \in {"GET settings", "PUT settings"}
        /\ Done(h) /\ handler[h].res.status = 200)
       => Cardinality({d \in GlobalSettings : d.shopDomain = handler[h].shop}) = 1

\* The default catalog as the spec documents it (4.1): entries with the
\* fields of the spec's data model (geometry is the code's coordinates,
\* displayLabel its displayName).
DocTextOption(i, n, m, b) == [id |-> i, name |-> n, maxLength |-> m, basePrice |-> b]
DocPlacement(i, n, c, p, g) ==
  [id |-> i, name |-> n, code |-> c, price |-> p, coordinates |-> g]
DocFont(i, n, c, p, d) ==
  [id |-> i, name |-> n, code |-> c, price |-> p, displayName |-> d]
DocumentedDefault ==
  [textOptions |-> << DocTextOption(1, "Player Name", 15, 0),
                      DocTextOption(2, "Custom Text", 25, 0),
                      DocTextOption(3, "Jersey Number", 3, 0) >>,
   placements |-> <<
     DocPlacement(1, "Chest", "chest", 5,
                  [x |-> 360, y |-> 250, maxWidth |-> 200, maxHeight |-> 60]),
     DocPlacement(2, "Back", "back", 5,
                  [x |-> 360, y |-> 300, maxWidth |-> 280, maxHeight |-> 100]),
     DocPlacement(3, "Left Sleeve", "left_sleeve", 7,
                  [x |-> 150, y |-> 320, maxWidth |-> 80, maxHeight |-> 40,
                   rotation |-> -90]),
     DocPlacement(4, "Right Sleeve", "right_sleeve", 7,
                  [x |-> 150, y |-> 320, maxWidth |-> 80, maxHeight |-> 40,
                   rotation |-> -90]) >>,
   fonts |-> << DocFont(1, "Standard", "standard", 0, "Standard Font (Free)"),
                DocFont(2, "Varsity", "varsity", 3, "Varsity Style (+$3)"),
                DocFont(3, "Script", "script", 5, "Script Style (+$5)"),
                DocFont(4, "Modern", "modern", 3, "Modern Style (+$3)") >>]

\* A catalog that has every documented entry with every documented field.
IsDocumentedDefault(doc) ==
  \A k \in CatalogPaths :
    /\ Len(doc[k]) = Len(DocumentedDefault[k])
    /\ \A i \in DOMAIN doc[k] :
         Restrict(doc[k][i], DOMAIN DocumentedDefault[k][i])
           = DocumentedDefault[k][i]

\* C9: in every state and for every shop, a resolve returns the shop's
\* catalog unmodified when it has one and creates and returns the
\* documented default catalog when it has none; a second resolve, at any
\* later time, returns the identical catalog and leaves the store unchanged.
C9_ResolveIdempotent ==
  \A shop \in Shops, t \in now..MaxClock :
    LET prior == findOne(GlobalSettings, shop)
        first == resolve(server, GlobalSettings, 0, shop, now)
        second == resolve(server, first.coll, 0, shop, t)
    IN /\ first.res.status = 200
       /\ ~prior.some => IsDocumentedDefault(first.res.body)
       /\ prior.some => (first.res.body = prior.v /\ first.coll = GlobalSettings)
       /\ second.res = first.res
       /\ second.coll = first.coll

\* Bodies that are catalogs: text options, placements and fonts only.
CatalogBodies == {b \in SettingsBodies : DOMAIN b \subseteq CatalogPaths}

\* C10: in every state, for every shop and every catalog, a replace followed
\* by a resolve returns what was given to replace, path by path, with no
\* field of any entry lost.
C10_ReplaceResolveRoundTrip ==
  \A shop \in Shops, body \in CatalogBodies, t \in now..MaxClock :
    LET put == replace(server, GlobalSettings, 0, shop, body, now)
        got == resolve(server, put.coll, 0, shop, t)
    IN put.res.status = 200
         => /\ got.res.status = 200
            /\ \A k \in DOMAIN body : got.res.body[k] = body[k]

(* =============== compilation, over a wider set of orders =============== *)
\* Line items as the storefront sends them (string-valued properties).
\* Text given, no Placement property.
ItemNoPlacement ==
  [id |-> 21, product_id |-> 501, variant_id |-> 601, sku |-> "JERSEY",
   title |-> "Jersey", quantity |-> 1,
   properties |-> << Prop("Player Name", Str("Lee")) >>]
\* Text given, Placement property empty.
ItemEmptyPlacement ==
  [id |-> 22, product_id |-> 501, variant_id |-> 601, sku |-> "JERSEY",
   title |-> "Jersey", quantity |-> 1,
   properties |-> << Prop("Custom Text", Str("Go")),
                     Prop("Placement", Str("")) >>]
\* A placement no catalog has, one padded with spaces, one in lower case.
ItemCollar ==
  [id |-> 23, product_id |-> 501, variant_id |-> 601, sku |-> "JERSEY",
   title |-> "Jersey", quantity |-> 3,
   properties |-> << Prop("Custom Text", Str("Go team")),
                     Prop("Placement", Str("Collar, Chest ,back")) >>]
\* A font the default catalog has, by its display name.
ItemFontScript ==
  [id |-> 24, product_id |-> 503, variant_id |-> 603, sku |-> "HOODIE",
   title |-> "Hoodie", quantity |-> 1,
   properties |-> << Prop("Player Name", Str("Kim")),
                     Prop("Font Style", Str("Script Style (+$5)")),
                     Prop("Placement", Str("Back")) >>]
\* A font no catalog has.
ItemFontUnknown ==
  [id |-> 25, product_id |-> 503, variant_id |-> 603, sku |-> "HOODIE",
   title |-> "Hoodie", quantity |-> 1,
   properties |-> << Prop("Jersey Number", Str("9")),
                     Prop("Font Style", Str("Gothic")),
                     Prop("Placement", Str("Chest")) >>]
\* A Font Style property that is present and empty.
ItemFontEmpty ==
  [id |-> 26, product_id |-> 503, variant_id |-> 603, sku |-> "HOODIE",
   title |-> "Hoodie", quantity |-> 1,
   properties |-> << Prop("Custom Message", Str("Champs")),
                     Prop("Font Style", Str("")),
                     Prop("Placement", Str("Back,Back")) >>]
\* Every trigger key, the first one empty.
ItemPriority ==
  [id |-> 27, product_id |-> 501, variant_id |-> 601, sku |-> "JERSEY",
   title |-> "Jersey", quantity |-> 1,
   properties |-> << Prop("Custom Message", Str("hi")),
                     Prop("Jersey Number", Str("10")),
                     Prop("Player Name", Str("Ann")),
                     Prop("Custom Text", Str("")),
                     Prop("Placement", Str("Chest")) >>]
\* A property name given twice: the later value is empty.
ItemDuplicate ==
  [id |-> 28, product_id |-> 501, variant_id |-> 601, sku |-> "JERSEY",
   title |-> "Jersey", quantity |-> 1,
   properties |-> << Prop("Custom Text", Str("first")),
                     Prop("Player Name", Str("Bo")),
                     Prop("Custom Text", Str("")),
                     Prop("Placement", Str("Chest")) >>]
\* Properties, none of them a trigger key.
ItemGiftWrap ==
  [id |-> 29, product_id |-> 502, variant_id |-> 602, sku |-> "CAP",
   title |-> "Cap", quantity |-> 1,
   properties |-> << Prop("Gift Wrap", Str("yes")),
                     Prop("Placement", Str("Chest")) >>]

\* A trigger key given twice, the later value empty; and the reverse.
ItemDuplicateEmptyLast ==
  [id |-> 30, product_id |-> 501, variant_id |-> 601, sku |-> "JERSEY",
   title |-> "Jersey", quantity |-> 1,
   properties |-> << Prop("Custom Text", Str("first")),
                     Prop("Placement", Str("Chest")),
                     Prop("Custom Text", Str("")) >>]
ItemDuplicateFilledLast ==
  [id |-> 31, product_id |-> 501, variant_id |-> 601, sku |-> "JERSEY",
   title |-> "Jersey", quantity |-> 2,
   properties |-> << Prop("Player Name", Str("")),
                     Prop("Placement", Str("Back")),
                     Prop("Player Name", Str("Cruz")) >>]

CompileOrder(n, nm, items) ==
  [id |-> n, name |-> nm, email |-> "a@example.com",
   customer |-> [first_name |-> "Ann", last_name |-> "Lee"],
   created_at |-> "2024-02-01", line_items |-> items]

CompileOrders ==
  { CompileOrder(2001, "#2001", <<ItemNoPlacement, ItemPlayer, ItemPlain, ItemCollar>>),
    CompileOrder(2002, "#2002", <<ItemEmptyPlacement, ItemEmptyText, ItemNoPlacement>>),
    CompileOrder(2003, "#2003", <<ItemFontScript, ItemGiftWrap, ItemFontUnknown,
                                  ItemFontEmpty, ItemPriority, ItemDuplicate>>),
    CompileOrder(2004, "#2004", <<ItemDuplicateEmptyLast, ItemPlain,
                                  ItemDuplicateFilledLast, ItemGiftWrap, ItemPlayer>>) }

\* A catalog whose first font is not the one labelled "Standard Font (Free)"
\* and whose placements include one in lower case.
ReorderedCatalog ==
  [placements |-> <<
     [id |-> 2, name |-> "Back", code |-> "back", price |-> 5,
      coordinates |-> [x |-> 360, y |-> 300, maxWidth |-> 280, maxHeight |-> 100]],
     [id |-> 5, name |-> "back", code |-> "lower_back", price |-> 6,
      coordinates |-> [x |-> 360, y |-> 500, maxWidth |-> 280, maxHeight |-> 80]],
     [id |-> 1, name |-> "Chest", code |-> "chest", price |-> 5,
      coordinates |-> [x |-> 360, y |-> 250, maxWidth |-> 200, maxHeight |-> 60]] >>,
   fonts |-> <<
     [id |-> 2, name |-> "Varsity", code |-> "varsity", price |-> 3,
      fontFile |-> "Impact", displayName |-> "Varsity Style (+$3)"],
     [id |-> 1, name |-> "Standard", code |-> "standard", price |-> 0,
      fontFile |-> "Arial", displayName |-> "Standard Font (Free)"] >>]

\* A catalog with a placement and no font.
NoFontsCatalog ==
  [placements |-> <<
     [id |-> 1, name |-> "Chest", code |-> "chest", price |-> 5,
      coordinates |-> [x |-> 360, y |-> 250, maxWidth |-> 200, maxHeight |-> 60]] >>,
   fonts |-> <<>>]

\* The settings collections compilation is run against: no catalog for the
\* shop, the default one (a first GET), and catalogs stored by a PUT.
CompileCatalogs ==
  { {},
    resolve("part_000", {}, 0, "s1", 0).coll,
    replace("part_000", {}, 0, "s1", EmptyLists, 0).coll,
    replace("part_000", {}, 0, "s1", ReorderedCatalog, 0).coll,
    replace("part_000", {}, 0, "s1", NoFontsCatalog, 0).coll }

\* The full server, without webhook secret, after the shop's catalog was
\* (or was not) set up.
CompileInit ==
  /\ server = "part_000"
  /\ secret = FALSE
  /\ GlobalSettings \in CompileCatalogs
  /\ Customization = {}
  /\ OrderQueue = {}
  /\ handler = [h \in Handlers |-> IdleHandler]
  /\ productionLog = {}
  /\ now = 0

CompileNext ==
  \/ \E h \in 1..CompileHandlers, order \in CompileOrders :
       WebhookReceive(h, "s1", order, TRUE)
  \/ \E h \in 1..CompileHandlers, dbOk \in BOOLEAN : GpfFindOne(h, dbOk)
  \/ \E h \in 1..CompileHandlers, dbOk \in BOOLEAN : GpfSaveCompleted(h, dbOk)
  \/ \E h \in 1..CompileHandlers, dbOk \in BOOLEAN : GpfSaveError(h, dbOk)
  \/ Tick

CompileSpec == CompileInit /\ [][CompileNext]_vars

\* The handlers that have compiled their record: productionData is set when
\* the loop of generateProductionFile has ended without an exception.
Compiled(h) == IsWebhook(h) /\ handler[h].productionData.some
\* The settings generateProductionFile read for handler h's record.
SettingsOf(h) == findOne(GlobalSettings, handler[h].queueEntry.v.shopDomain)

\* C11: compilation is a pure function of the intake record and the
\* catalog: compiling the record a handler has compiled again, against the
\* same catalog at any time of the clock, yields the production record the
\* handler got, created timestamp included; and the record's candidates and
\* the catalog are what they were before.
C11_CompileIsPure ==
  \A h \in Handlers :
    Compiled(h)
    => /\ \A t \in 0..MaxClock :
            productionDataOf(handler[h].queueEntry.v, SettingsOf(h), t)
              = Returned(handler[h].productionData.v)
       /\ \A d \in RecordsOf(h) :
            d.customizations = handler[h].queueEntry.v.customizations

\* What the spec (4.3) says of one candidate, stated over its property map
\* and the catalog.  The text: the first non-empty value under the trigger
\* keys in their priority order, '' when there is none.
TriggerPriority == <<"Custom Text", "Player Name", "Jersey Number", "Custom Message">>
SpecText(props) ==
  LET filled == {i \in DOMAIN TriggerPriority : Get(props, TriggerPriority[i]).v # ""}
  IN IF filled = {} THEN ""
     ELSE Get(props, TriggerPriority[CHOOSE i \in filled : \A j \in filled : i <= j]).v
\* The requested placement names: the Placement property split on ',' and
\* trimmed; none when the property is absent or empty.
RequestedNames(props) ==
  IF Get(props, "Placement").v = "" THEN <<>>
  ELSE LET parts == split(Get(props, "Placement").v)
       IN [i \in DOMAIN parts |-> trim(parts[i])]
\* The catalog's lists; a shop without a catalog has no placement, no font.
CatalogPlacements(settings) == IF settings.some THEN settings.v.placements ELSE <<>>
CatalogFonts(settings) == IF settings.some THEN settings.v.fonts ELSE <<>>
\* The first catalog placement of a given name.
Matches(placements, n) == {i \in DOMAIN placements : placements[i].name = n}
PlacementNamed(placements, n) ==
  placements[CHOOSE i \in Matches(placements, n) : \A j \in Matches(placements, n) : i <= j]
\* The requested names, in the order requested, that name a catalog placement.
MatchedNames(props, settings) ==
  LET IsMatched(n) == Matches(CatalogPlacements(settings), n) # {}
  IN SelectSeq(RequestedNames(props), IsMatched)

\* The candidates of the record handler h compiled, and the instructions
\* the production record carries for one of them (none when the production
\* record has no line item for it).
CandidatesOf(h) == handler[h].queueEntry.v.customizations.items
InstructionsOf(h, item) ==
  LET lines == handler[h].productionData.v.line_items
      at == {i \in DOMAIN lines : lines[i].id = item.lineItemId}
  IN IF at = {} THEN <<>> ELSE lines[CHOOSE i \in at : TRUE].customizations

\* C12: for every compiled candidate with a non-empty text, the instructions
\* are, one for one and in the order requested, the requested placement
\* names that equal a catalog placement's name exactly, each with that
\* placement's code and geometry; other names are skipped, and an absent or
\* empty Placement property gives no instruction.
C12_OneInstructionPerMatchedPlacement ==
  \A h \in Handlers :
    Compiled(h)
    => \A k \in DOMAIN CandidatesOf(h) :
         LET item == CandidatesOf(h)[k]
             got == InstructionsOf(h, item)
             names == MatchedNames(item.properties, SettingsOf(h))
         IN SpecText(item.properties) # ""
            => /\ Len(got) = Len(names)
               /\ \A i \in DOMAIN got :
                    LET p == PlacementNamed(CatalogPlacements(SettingsOf(h)), names[i])
                    IN /\ got[i].placement = Some(p.code)
                       /\ got[i].coordinates = Some(p.coordinates)
               /\ Get(item.properties, "Placement").v = "" => got = <<>>

\* C12 witness: a compiled record with a candidate three of whose names were
\* requested and one matched, and a candidate with text and no Placement.
C12_Witness ==
  \E h \in Handlers :
    /\ Compiled(h)
    /\ \E k \in DOMAIN CandidatesOf(h) :
         LET item == CandidatesOf(h)[k]
         IN /\ Len(RequestedNames(item.properties)) = 3
            /\ Len(InstructionsOf(h, item)) = 1
            /\ InstructionsOf(h, item)[1].placement = Some("chest")
    /\ \E k \in DOMAIN CandidatesOf(h) :
         LET item == CandidatesOf(h)[k]
         IN /\ "Placement" \notin DOMAIN item.properties
            /\ SpecText(item.properties) # ""
            /\ InstructionsOf(h, item) = <<>>

\* The font code the spec (4.3, step 3) gives for a requested label: the
\* code of the first catalog font whose display label equals it, else the
\* code of the catalog's first font, else the literal "standard".
DefaultFontLabel == "Standard Font (Free)"
SpecFontCode(settings, label) ==
  LET fonts == CatalogFonts(settings)
      at == {i \in DOMAIN fonts : fonts[i].displayName = label}
  IN IF at # {} THEN fonts[CHOOSE i \in at : \A j \in at : i <= j].code
     ELSE IF fonts # <<>> THEN fonts[1].code
     ELSE "standard"
\* Every instruction of every compiled candidate has the font code of the
\* label that Label gives for the candidate's property map.
FontCodesFollow(Label(_)) ==
  \A h \in Handlers :
    Compiled(h)
    => \A k \in DOMAIN CandidatesOf(h) :
         LET item == CandidatesOf(h)[k]
             got == InstructionsOf(h, item)
         IN \A i \in DOMAIN got :
              got[i].font = SpecFontCode(SettingsOf(h), Label(item.properties))

\* C13 as stated: the requested label is the Font Style property, or
\* "Standard Font (Free)" when the property is absent; the font code of
\* every instruction is the code of the catalog font with that display
\* label, else of the catalog's first font, else "standard".
LabelWhenAbsent(props) ==
  IF "Font Style" \in DOMAIN props THEN props["Font Style"].v ELSE DefaultFontLabel
C13_FontCodeAsStated == FontCodesFollow(LabelWhenAbsent)

\* C13 amended: the requested label is the Font Style property, or
\* "Standard Font (Free)" when the property is absent or empty; the font
\* code of every instruction is the code of the catalog font with that
\* display label, else of the catalog's first font, else "standard".
LabelWhenAbsentOrEmpty(props) ==
  IF Get(props, "Font Style").v # "" THEN props["Font Style"].v ELSE DefaultFontLabel
C13_FontCodeResolved == FontCodesFollow(LabelWhenAbsentOrEmpty)

\* C13 witness: instructions were emitted against a catalog whose first
\* font is not the standard one, for a label no font has (first font's
\* code) and for an empty Font Style (the standard font's code).
C13_Witness ==
  /\ \E h \in Handlers :
       /\ Compiled(h)
       /\ CatalogFonts(SettingsOf(h)) # <<>>
       /\ CatalogFonts(SettingsOf(h))[1].code = "varsity"
       /\ \E k \in DOMAIN CandidatesOf(h) :
            LET item == CandidatesOf(h)[k]
            IN /\ Get(item.properties, "Font Style") = Str("Gothic")
               /\ InstructionsOf(h, item) # <<>>
               /\ InstructionsOf(h, item)[1].font = "varsity"
       /\ \E k \in DOMAIN CandidatesOf(h) :
            LET item == CandidatesOf(h)[k]
            IN /\ "Font Style" \in DOMAIN item.properties
               /\ item.properties["Font Style"].v = ""
               /\ InstructionsOf(h, item) # <<>>
               /\ InstructionsOf(h, item)[1].font = "standard"
               /\ CatalogFonts(SettingsOf(h)) # <<>>

\* Whether the spec gives a candidate at least one instruction: it has a
\* text and a requested placement name that names a catalog placement.
HasInstruction(props, settings) ==
  SpecText(props) # "" /\ MatchedNames(props, settings) # <<>>
\* The messages of the database failures of the model.
DbFailures == {"MongoNetworkError: findOne failed", "MongoNetworkError: save failed"}

\* C14: a candidate without instructions is left out of the production
\* record and is no error: the line items of a compiled production record
\* are, in order, exactly the candidates with at least one instruction,
\* each with its instructions; nothing but a database failure is caught
\* while a record is compiled; and a record whose compilation and save
\* went through ends completed, the webhook answering 200.
C14_EmptyCandidatesOmitted ==
  \A h \in Handlers :
    (IsWebhook(h) /\ handler[h].queueEntry.some)
    => /\ handler[h].caught.some => handler[h].caught.v \in DbFailures
       /\ Compiled(h)
            => LET lines == handler[h].productionData.v.line_items
                   Kept(item) == HasInstruction(item.properties, SettingsOf(h))
                   kept == SelectSeq(CandidatesOf(h), Kept)
               IN /\ Len(lines) = Len(kept)
                  /\ \A i \in DOMAIN lines :
                       /\ lines[i].id = kept[i].lineItemId
                       /\ lines[i].customizations # <<>>
       /\ (Done(h) /\ ~handler[h].caught.some)
            => /\ handler[h].res.status = 200
               /\ \A d \in RecordsOf(h) : d.status = "completed" /\ ~d.error.some

\* C14 witness: a record with candidates without instructions, one of them
\* before a candidate that has some, was compiled, saved completed and
\* logged with fewer line items than it has candidates.
C14_Witness ==
  \E h \in Handlers :
    /\ Compiled(h) /\ Done(h) /\ ~handler[h].caught.some
    /\ \E d \in RecordsOf(h) : d.status = "completed"
    /\ \E p \in productionLog :
         /\ p.queueId = h
         /\ Len(p.data.line_items) >= 1
         /\ Len(p.data.line_items) < Len(CandidatesOf(h))
         /\ p.data.line_items[1].id # CandidatesOf(h)[1].lineItemId

(* ====================== the status of a record ========================= *)
\* The error messages the catch block can be given in the model.
ErrorMessages ==
  DbFailures \cup {"customText.toUpperCase is not a function",
                   "props.Placement.split is not a function"}

\* C15: the status is last-write-wins.  For the entry of every handler, at
\* every time and for every message: marked in error and then completed it
\* is completed with the processed timestamp of that call; marked completed
\* and then in error it is in error with the message of that call.  And on
\* the path of the program where the two follow each other (the save of
\* the completed entry fails), the entry the handler holds, and the stored
\* one once saved, is in error with the caught message.
C15_LastWriteWins ==
  \A h \in Handlers :
    handler[h].queueEntry.some
    => LET e == handler[h].queueEntry.v
       IN /\ \A t \in now..MaxClock, msg \in ErrorMessages :
               LET a == markCompleted(markError(e, msg), t)
                   b == markError(markCompleted(e, t), msg)
               IN /\ a.status = "completed" /\ a.processedAt = Some(t)
                  /\ b.status = "error" /\ b.error = Some(msg)
          /\ (handler[h].caught.some /\ handler[h].pc \in {"saveError", "done"})
               => e.status = "error" /\ e.error = handler[h].caught
          /\ (handler[h].caught.some /\ Done(h) /\ handler[h].res.status = 200)
               => RecordsOf(h) = {e}

\* C15 witness: an entry was marked completed, its save failed, it was
\* marked in error and saved: the stored record is in error with the
\* message, and still carries the processed timestamp of the first mark.
C15_Witness ==
  \E h \in Handlers :
    /\ Done(h) /\ handler[h].caught = Some("MongoNetworkError: save failed")
    /\ handler[h].res.status = 200
    /\ \E d \in RecordsOf(h) :
         d.status = "error" /\ d.error = handler[h].caught /\ d.processedAt.some

\* C16: a stored intake record that is completed has a processed
\* timestamp, one that is in error has an error message, and one that is
\* pending has neither; the same holds of the entry a handler holds.
StatusMetadataAgree(d) ==
  /\ d.status \in {"pending", "completed", "error"}
  /\ d.status = "completed" => d.processedAt.some
  /\ d.status = "error" => d.error.some
  /\ d.status = "pending" => (~d.processedAt.some /\ ~d.error.some)
C16_StatusHasItsMetadata ==
  /\ \A d \in OrderQueue : StatusMetadataAgree(d)
  /\ \A h \in Handlers :
       handler[h].queueEntry.some => StatusMetadataAgree(handler[h].queueEntry.v)

\* C16 witness: a completed record with its timestamp and an error record
\* with its message are stored, both having been created pending.
C16_Witness ==
  /\ \E d \in OrderQueue : d.status = "completed" /\ d.processedAt.some
  /\ \E d \in OrderQueue : d.status = "error" /\ d.error.some

(* ========================= candidate extraction ======================== *)
\* The property map the spec (4.2) gives a line item: each declared name
\* with the last value given for it.
SpecPropertyMap(properties) ==
  [k \in {properties[i].name : i \in DOMAIN properties} |-> LastValue(properties, k)]

\* C17: the candidates of an order are exactly its line items that have at
\* least one property and a non-empty value (the last one given) under a
\* trigger key, in the order of the line items, each carrying the item's
\* id, product id, variant id, sku, title, quantity and full property map;
\* an order none of whose items qualifies has no candidate list at all.
C17_ExtractsExactlyTheCandidates ==
  \A h \in Handlers :
    (IsWebhook(h) /\ "line_items" \in DOMAIN handler[h].body)
    => LET expected == SelectSeq(handler[h].body.line_items, IsCandidate)
       IN IF expected = <<>> THEN ~handler[h].queueEntry.some
          ELSE /\ handler[h].queueEntry.some
               /\ Len(CandidatesOf(h)) = Len(expected)
               /\ \A i \in DOMAIN expected :
                    CandidatesOf(h)[i] =
                      [lineItemId |-> expected[i].id,
                       productId |-> expected[i].product_id,
                       variantId |-> expected[i].variant_id,
                       sku |-> expected[i].sku, title |-> expected[i].title,
                       quantity |-> expected[i].quantity,
                       properties |-> SpecPropertyMap(expected[i].properties)]

\* C17 witness: of an order of five line items (one without properties,
\* one without trigger key, one whose trigger key was last given empty)
\* the two others were extracted, in their order.
C17_Witness ==
  \E h \in Handlers :
    /\ IsWebhook(h) /\ handler[h].queueEntry.some
    /\ Len(handler[h].body.line_items) = 5
    /\ Len(CandidatesOf(h)) = 2
    /\ CandidatesOf(h)[1].lineItemId = handler[h].body.line_items[3].id
    /\ CandidatesOf(h)[1].properties["Player Name"] = Str("Cruz")
    /\ CandidatesOf(h)[2].lineItemId = handler[h].body.line_items[5].id

\* C18: the text of every instruction of a compiled candidate is (in upper
\* case, as the instruction carries it) the first non-empty value among
\* Custom Text, Player Name, Jersey Number, Custom Message, in that order;
\* a candidate none of whose trigger values is non-empty has no instruction.
C18_TextByPriority ==
  \A h \in Handlers :
    Compiled(h)
    => \A k \in DOMAIN CandidatesOf(h) :
         LET item == CandidatesOf(h)[k]
             got == InstructionsOf(h, item)
         IN /\ \A i \in DOMAIN got :
                 got[i].value = toUpperCase(SpecText(item.properties))
            /\ SpecText(item.properties) = "" => got = <<>>

\* C18 witness: a candidate with an empty Custom Text and all three other
\* keys filled was compiled to an instruction with the Player Name, and
\* one with only a Custom Message to an instruction with that message.
C18_Witness ==
  /\ \E h \in Handlers :
       /\ Compiled(h)
       /\ \E k \in DOMAIN CandidatesOf(h) :
            LET item == CandidatesOf(h)[k]
            IN /\ Get(item.properties, "Custom Text") = Str("")
               /\ Get(item.properties, "Player Name") = Str("Ann")
               /\ Get(item.properties, "Custom Message") = Str("hi")
               /\ InstructionsOf(h, item) # <<>>
               /\ InstructionsOf(h, item)[1].value = "ANN"
       /\ \E k \in DOMAIN CandidatesOf(h) :
            LET item == CandidatesOf(h)[k]
            IN /\ "Custom Text" \notin DOMAIN item.properties
               /\ InstructionsOf(h, item) # <<>>
               /\ InstructionsOf(h, item)[1].value = "CHAMPS"

(* ========================== the order queue ============================ *)
\* Records earlier deliveries left in the collection: created by the
\* webhook at time t, and marked as generateProductionFile marks them.
PastRecord(id, shop, order, t) ==
  newQueueEntry(id, shop, order, customizedItemsOf(order.line_items), t)
PastRecords ==
  { markCompleted(PastRecord(11, "s1", OrderCustom, 0), 0),
    PastRecord(12, "s1", OrderNoName, 1),
    markError(PastRecord(13, "s1", OrderNumber, 1),
              "customText.toUpperCase is not a function"),
    PastRecord(14, "s2", OrderCustom, 1) }

\* The requests to GET /api/orders/:shop: every shop, with and without
\* status, with and without limit.
QueryRequests ==
  { OrdersRequest(shop, status, limit) :
      shop \in Shops,
      status \in {None, Some(""), Some("pending"), Some("error")},
      limit \in {None, Some("0"), Some("1"), Some("2")} }

\* The full server with a queue that earlier deliveries filled.
QueryInit ==
  /\ server = "part_000"
  /\ secret = FALSE
  /\ GlobalSettings = {}
  /\ Customization = {}
  /\ OrderQueue \in SUBSET PastRecords
  /\ handler = [h \in Handlers |-> IdleHandler]
  /\ productionLog = {}
  /\ now = MaxClock

QueryNext ==
  \E h \in Handlers, r \in QueryRequests : GetOrders(h, r.shop, r.status, r.limit)

QuerySpec == QueryInit /\ [][QueryNext]_vars

\* What the spec (4.5) says of the answer handler h gave to a query: only
\* stored records of the shop, of the status when a filter is given, newest
\* first, and no more than the limit (50 when none is given).
AnsweredQuery(h) == handler[h].route = "GET orders" /\ Done(h)
LimitOf(h) ==
  IF handler[h].query.limit.some THEN parseInt(handler[h].query.limit.v).v
                                 ELSE DefaultLimit
AnswerIsAsSpecified(h) ==
  LET orders == handler[h].res.body.orders
      status == handler[h].query.status
  IN /\ handler[h].res.status = 200
     /\ \A i \in DOMAIN orders :
          /\ orders[i] \in OrderQueue
          /\ orders[i].shopDomain = handler[h].shop
          /\ (status.some /\ status.v # "") => orders[i].status = status.v
     /\ \A i \in DOMAIN orders, j \in DOMAIN orders :
          i < j => orders[i].createdAt >= orders[j].createdAt
     /\ Len(orders) <= LimitOf(h)
     /\ handler[h].res.body.count = Len(orders)

\* C19: every answer to a query holds only records of the shop asked for
\* (and of the status asked for), newest first by creation time, and never
\* more than limit records, limit being 50 when not given.
C19_QueryIsScopedOrderedCapped ==
  \A h \in Handlers : AnsweredQuery(h) => AnswerIsAsSpecified(h)

\* The same for the queries whose limit is at least 1; those answers hold
\* every matching record there is, up to the limit.
C19_WithPositiveLimit ==
  \A h \in Handlers :
    (AnsweredQuery(h) /\ LimitOf(h) >= 1)
    => /\ AnswerIsAsSpecified(h)
       /\ LET matching == {d \in OrderQueue :
                             queryMatches(d, handler[h].shop, handler[h].query.status)}
          IN Len(handler[h].res.body.orders)
               = IF Cardinality(matching) < LimitOf(h)
                   THEN Cardinality(matching) ELSE LimitOf(h)

(* ====================== independence of events ========================= *)
\* C20: every step of an order webhook (its handler and the production
\* file generation it awaits) creates at most one intake record, its own,
\* and leaves every other intake record, every shop catalog and every
\* product customization toggle as it was; it creates no catalog.
C20_WebhookLeavesTheRestAlone ==
  [][\A h \in Handlers :
       (handler'[h] # handler[h] /\ handler'[h].route = "POST webhook")
       => /\ GlobalSettings' = GlobalSettings
          /\ Customization' = Customization
          /\ \A d \in OrderQueue : d._id # h => d \in OrderQueue'
          /\ \A d \in OrderQueue' : d._id # h => d \in OrderQueue
          /\ Cardinality({d \in OrderQueue' : d._id = h}) <= 1
          /\ Cardinality(OrderQueue') <= Cardinality(OrderQueue) + 1
    ]_vars

\* C20 witness: two deliveries of one order to a shop without catalog have
\* both been processed to the end: each has its own record, as its handler
\* saved it, and the shop still has no catalog.
C20_Witness ==
  \E h1 \in Handlers, h2 \in Handlers :
    /\ h1 # h2
    /\ IsWebhook(h1) /\ IsWebhook(h2) /\ Done(h1) /\ Done(h2)
    /\ handler[h1].shop = handler[h2].shop
    /\ handler[h1].body = handler[h2].body
    /\ handler[h1].queueEntry.some /\ handler[h2].queueEntry.some
    /\ RecordsOf(h1) = {handler[h1].queueEntry.v}
    /\ RecordsOf(h2) = {handler[h2].queueEntry.v}
    /\ handler[h1].queueEntry.v.status = "completed"
    /\ ~findOne(GlobalSettings, handler[h1].shop).some

(* ===================== the key of the toggles ========================== *)
\* C21: (shop, productId) is a key of the stored toggles: no two stored
\* toggles have the same shop and the same product.
C21_OneTogglePerShopAndProduct ==
  \A d \in Customization, e \in Customization :
    (d.shopDomain = e.shopDomain /\ d.productId = e.productId) => d = e

(* ================= every record reaches a terminal status ============== *)
\* One step of generateProductionFile in handler h: the awaited findOne or
\* save settles, with either outcome, and the code after the await runs.
generateProductionFileStep(h) ==
  \E dbOk \in BOOLEAN :
    \/ GpfFindOne(h, dbOk)
    \/ GpfSaveCompleted(h, dbOk)
    \/ GpfSaveError(h, dbOk)

\* Fair scheduling of the webhook handler: an awaited database call
\* settles (the driver resolves or rejects it, at the latest on its
\* timeout) and the event loop then runs the continuation.  Nothing is
\* assumed about which way the call settles.
Fairness == \A h \in Handlers : WF_vars(generateProductionFileStep(h))

FairSpec == Spec /\ Fairness

\* The stored record handler h created, by its status.
StoredPending(h) == \E r \in OrderQueue : r._id = h /\ r.status = "pending"

StoredTerminal(h) ==
  \E r \in OrderQueue : r._id = h /\ r.status \in {"completed", "error"}

\* The save in the catch block of generateProductionFile failed: the error
\* left the function and the webhook handler answered 500.
CatchSaveFailed(h) ==
  /\ handler[h].pc = "done"
  /\ handler[h].caught # None
  /\ handler[h].res.status = 500

\* C22: a record created in pending does not stay pending: it eventually
\* is completed or error, whichever way the catalog lookup and the status
\* writes settle.
C22_PendingLeadsToTerminal ==
  \A h \in Handlers : StoredPending(h) ~> StoredTerminal(h)

\* What the code does give: a pending record becomes completed or error
\* unless the save in the catch block fails.
C22_UnlessCatchSaveFails ==
  \A h \in Handlers : StoredPending(h) ~> (StoredTerminal(h) \/ CatchSaveFailed(h))
====
